---------------------------- MODULE Spec2Model ----------------------------
(***************************************************************************)
(* Model of the strategy back-testing tool: TradingStrategy (load_data,    *)
(* _validate_data, execute_trades), SimpleMAStrategy.generate_signals,     *)
(* PerformanceAnalyzer (construction, analyze) and Backtester              *)
(* (construction, run_backtest).                                           *)
(*                                                                         *)
(* Numbers.  A pandas float is modelled exactly as a rational <<n, d>>     *)
(* with d > 0 in lowest terms; NaN is <<0, 0>>.  A price series (the       *)
(* "close" column, already ordered by date as sort_index leaves it) is a   *)
(* sequence of such values; position i of the sequence is the i-th date.   *)
(***************************************************************************)
EXTENDS Integers, Sequences, FiniteSets, TLC

VARIABLES
    (* ---- one TradingStrategy object ---- *)
    st_pc,          \* "none" | "new" | "loaded" | "load_failed" | "traded"
                    \* | "trade_failed"
    call_arg,       \* the argument of the pending load_data call
    has_price_data, \* hasattr(self, "price_data")
    price_data,     \* self.price_data["close"]
    load_error,     \* what load_data raised (NoError if nothing)
    signals,        \* what generate_signals returns for this object
    portfolio,      \* self.portfolio (columns as sequences)
    trades,         \* execute_trades' local "trades" series
    exec_error,     \* what execute_trades raised (NoError if nothing)
    config,         \* self.config of the strategy object
    (* ---- one Backtester object and one run_backtest call ---- *)
    bt_pc,          \* "idle" | "new" | "ready" | "construct_failed" | "running"
                    \* | "returned" | "run_failed"
    optional_metrics, \* analyzer.optional_metrics
    bt_error,       \* the exception that reached the Backtester's caller
    grid,           \* param_grid of the running call
    idx,            \* number of combinations the loop has consumed
    params,         \* the loop variable "params" (<<>> before the loop)
    results,        \* the list "results"
    origins,        \* history: grid index of the combination behind each result
    raised,         \* history: grid indexes whose pipeline raised
    stages,         \* history: how many load / simulate / analyze calls ran
    table,          \* the DataFrame run_backtest returned: its columns, its
                    \* rows, and as history the grid index behind each row
    (* ---- one PerformanceAnalyzer object used on its own ---- *)
    analyzer_obj,   \* its config, stake and optional_metrics
    an_calls,       \* history: the portfolio and outcome of each analyze call
    comparison      \* what the last compare_stakes call raised and returned

strategy_vars == <<st_pc, call_arg, has_price_data, price_data, load_error,
                   signals, portfolio, trades, exec_error, config>>
backtester_vars == <<bt_pc, optional_metrics, bt_error, grid, idx, params,
                     results, origins, raised, stages, table>>
analyzer_vars == <<analyzer_obj, an_calls, comparison>>
vars == <<strategy_vars, backtester_vars, analyzer_vars>>

-----------------------------------------------------------------------------
(* Rational arithmetic with NaN *)

NaN == <<0, 0>>

IsNaN(x) == x[2] = 0

Abs(n) == IF n < 0 THEN -n ELSE n

RECURSIVE Gcd(_, _)
Gcd(a, b) == IF b = 0 THEN a ELSE Gcd(b, a % b)

\* the rational n/d (d # 0) in lowest terms with a positive denominator
Rat(n, d) ==
    LET g == Gcd(Abs(n), Abs(d))
        s == IF d < 0 THEN -1 ELSE 1
    IN  <<(s * n) \div g, (s * d) \div g>>

FromInt(n) == <<n, 1>>

Zero == <<0, 1>>
One == <<1, 1>>

RatAdd(x, y) ==
    IF IsNaN(x) \/ IsNaN(y) THEN NaN
    ELSE LET g == Gcd(x[2], y[2])
         IN  Rat(x[1] * (y[2] \div g) + y[1] * (x[2] \div g), (x[2] \div g) * y[2])

RatNeg(x) == IF IsNaN(x) THEN NaN ELSE <<-x[1], x[2]>>

RatSub(x, y) == RatAdd(x, RatNeg(y))

RatMul(x, y) ==
    IF IsNaN(x) \/ IsNaN(y) THEN NaN
    ELSE LET g1 == Gcd(Abs(x[1]), y[2])
             g2 == Gcd(Abs(y[1]), x[2])
         IN  Rat((x[1] \div g1) * (y[1] \div g2), (x[2] \div g2) * (y[2] \div g1))

\* x / y for y # 0; 0/0 and anything involving NaN is NaN
RatDiv(x, y) ==
    IF IsNaN(x) \/ IsNaN(y) \/ y[1] = 0 THEN NaN
    ELSE RatMul(x, Rat(y[2], y[1]))

RatAbs(x) == IF IsNaN(x) THEN NaN ELSE <<Abs(x[1]), x[2]>>

\* comparisons are False when either side is NaN, as in IEEE arithmetic
RatLess(x, y) ==
    /\ ~IsNaN(x)
    /\ ~IsNaN(y)
    /\ x[1] * (y[2] \div Gcd(x[2], y[2])) < y[1] * (x[2] \div Gcd(x[2], y[2]))

RatLeq(x, y) == ~IsNaN(x) /\ ~IsNaN(y) /\ ~RatLess(y, x)

-----------------------------------------------------------------------------
(* Exceptions: the class, and the message as its parts, outermost first *)

NoError == [cls |-> "none", msg |-> <<>>]
ValueError(m) == [cls |-> "ValueError", msg |-> m]
TypeError(m) == [cls |-> "TypeError", msg |-> m]

-----------------------------------------------------------------------------
(* TradingStrategy._validate_data and load_data *)

min_data_points == 200
max_nan_percentage == 5

NanCount(data) == Cardinality({i \in 1..Len(data) : IsNaN(data[i])})

\* the sequence a function on 1..n stands for, evaluated once
AsSeq(f) == f \o <<>>

\* (A value computed once and used several times is passed as an operator
\* argument rather than named in a LET: TLC evaluates an argument once and a
\* LET definition at every use.)

\* Series.ffill() on positions lo..hi, carry being the most recent valid
\* value before lo (NaN if there is none)
RECURSIVE FfillRange(_, _, _, _)
RECURSIVE FfillAfter(_, _, _, _)
FfillRange(data, lo, hi, carry) ==
    IF lo > hi THEN <<>>
    ELSE IF lo = hi THEN <<IF IsNaN(data[lo]) THEN carry ELSE data[lo]>>
    ELSE FfillAfter(data, (lo + hi) \div 2, hi,
                    FfillRange(data, lo, (lo + hi) \div 2, carry))

FfillAfter(data, mid, hi, left) ==
    left \o FfillRange(data, mid + 1, hi, left[Len(left)])

\* Series.ffill(): every gap takes the most recent valid prior value; a gap
\* with no valid value before it stays missing
Ffill(data) == FfillRange(data, 1, Len(data), NaN)

\* _validate_data with the missing-value test on the fraction instead of
\* the percentage (nan_count / len(data) > 5)
ValidateDataFraction(data) ==
    IF Len(data) < min_data_points
    THEN [error |-> ValueError(<<"InsufficientData">>), data |-> data]
    ELSE IF \E i \in 1..Len(data) : RatLeq(data[i], Zero)
    THEN [error |-> ValueError(<<"InvalidPrice">>), data |-> data]
    ELSE IF NanCount(data) > max_nan_percentage * Len(data)
    THEN [error |-> ValueError(<<"ExcessiveMissingData">>), data |-> data]
    ELSE IF NanCount(data) > 0
    THEN [error |-> NoError, data |-> Ffill(data)]
    ELSE [error |-> NoError, data |-> data]

\* the outcome of _validate_data: what it raised and the frame it leaves
\* (the frame is the caller's object, so the fill is seen through
\* self.price_data).  The date-gap and extreme-move checks only log.
ValidateData(data) ==
    IF Len(data) < min_data_points
    THEN [error |-> ValueError(<<"InsufficientData">>), data |-> data]
    ELSE IF \E i \in 1..Len(data) : RatLeq(data[i], Zero)
    THEN [error |-> ValueError(<<"InvalidPrice">>), data |-> data]
    ELSE IF NanCount(data) * 100 > max_nan_percentage * Len(data)
    THEN [error |-> ValueError(<<"ExcessiveMissingData">>), data |-> data]
    ELSE IF NanCount(data) > 0
    THEN [error |-> NoError, data |-> Ffill(data)]
    ELSE [error |-> NoError, data |-> data]

\* load_data(price_data=...) / load_data(ticker, start, end) / neither.
\* arg.source says which; arg.columns whether the frame has "date" and
\* "close"; arg.fetched whether yf.download returned rows; arg.series is the
\* close column.  Result: the error raised, whether self.price_data was
\* assigned (it is assigned before validation), and its value.
LoadData(arg) ==
    IF arg.source = "provided"
    THEN IF ~arg.columns
         THEN [error |-> ValueError(<<"MissingColumns">>), assigned |-> FALSE,
               data |-> <<>>]
         ELSE [assigned |-> TRUE] @@ ValidateData(arg.series)
    ELSE IF arg.source = "ticker"
    THEN IF ~arg.fetched
         THEN [error |-> ValueError(<<"FailedToFetch", "NoData">>),
               assigned |-> FALSE, data |-> <<>>]
         ELSE LET wrap(v) ==
                      IF v.error = NoError
                      THEN [error |-> NoError, assigned |-> TRUE, data |-> v.data]
                      ELSE [error |-> ValueError(<<"FailedToFetch">> \o v.error.msg),
                            assigned |-> TRUE, data |-> v.data]
              IN  wrap(ValidateData(arg.series))
    ELSE [error |-> ValueError(<<"MissingInput">>), assigned |-> FALSE,
          data |-> <<>>]

-----------------------------------------------------------------------------
(* TradingConfig *)

default_initial_capital == 100000
default_risk_free_rate == <<1, 50>>          \* 0.02
default_transaction_cost_bps == <<1, 10>>    \* 0.1

\* TradingConfig(): the dataclass defaults
DefaultConfig ==
    [initial_capital |-> FromInt(default_initial_capital),
     transaction_cost_bps |-> default_transaction_cost_bps,
     risk_free_rate |-> default_risk_free_rate]

-----------------------------------------------------------------------------
(* TradingStrategy.execute_trades *)

\* Series.pct_change(): NaN at the first date and wherever a price is
\* missing (a validated series has gaps only at its start, where a
\* forward fill inside pct_change has nothing to fill from)
PctChange(data) ==
    AsSeq([i \in 1..Len(data) |->
        IF i = 1 THEN NaN
        ELSE RatSub(RatDiv(data[i], data[i - 1]), One)])

Fillna0(s) == AsSeq([i \in 1..Len(s) |-> IF IsNaN(s[i]) THEN Zero ELSE s[i]])

\* Series.shift(1)
Shift1(s) == AsSeq([i \in 1..Len(s) |-> IF i = 1 THEN NaN ELSE s[i - 1]])

\* frame[col] = series: the series is aligned on the frame's index.  The
\* series carries the first Len(s) dates of the price index; a date it
\* lacks gets NaN, a date the frame lacks is dropped.
AlignTo(n, s) == AsSeq([i \in 1..n |-> IF i <= Len(s) THEN s[i] ELSE NaN])

\* Series.diff().abs().fillna(0)
DiffAbsFillna0(s) ==
    AsSeq([i \in 1..Len(s) |->
        IF i = 1 THEN Zero
        ELSE LET d == RatAbs(RatSub(s[i], s[i - 1]))
             IN  IF IsNaN(d) THEN Zero ELSE d])

\* the running products of s over positions lo..hi, NaN entries skipped,
\* start being the product before lo
RECURSIVE RunningProduct(_, _, _, _)
RECURSIVE RunningProductAfter(_, _, _, _)
RunningProduct(s, lo, hi, start) ==
    IF lo > hi THEN <<>>
    ELSE IF lo = hi THEN <<IF IsNaN(s[lo]) THEN start ELSE RatMul(start, s[lo])>>
    ELSE RunningProductAfter(s, (lo + hi) \div 2, hi,
                             RunningProduct(s, lo, (lo + hi) \div 2, start))

RunningProductAfter(s, mid, hi, left) ==
    left \o RunningProduct(s, mid + 1, hi, left[Len(left)])

MaskNaN(s, run) ==
    AsSeq([i \in 1..Len(s) |-> IF IsNaN(s[i]) THEN NaN ELSE run[i]])

\* Series.cumprod(): a NaN entry stays NaN and is skipped by the product
Cumprod(s) == MaskNaN(s, RunningProduct(s, 1, Len(s), One))

\* pd.DataFrame(): no rows, no columns
EmptyFrame ==
    [n |-> 0, signal |-> <<>>, market_returns |-> <<>>, position |-> <<>>,
     strategy_returns |-> <<>>, portfolio_value |-> <<>>]

\* position = signals, without the one-period lag
PositionNoLag(n, sig) == AlignTo(n, sig)

\* position = signals.shift(1), as stored in the portfolio frame
PositionOf(n, sig) == AlignTo(n, Shift1(sig))

\* trades = position.diff().abs().fillna(0)
TradesOf(position) == DiffAbsFillna0(position)

\* strategy_returns = position * returns - costs
StrategyReturnsOf(position, returns, costs) ==
    AsSeq([i \in 1..Len(position) |->
        RatSub(RatMul(position[i], returns[i]), costs[i])])

\* costs = trades * (transaction_cost_bps / 10000)
CostsOf(cfg, tr) ==
    AsSeq([i \in 1..Len(tr) |->
        RatMul(tr[i], RatDiv(cfg.transaction_cost_bps, FromInt(10000)))])

\* (1 + strategy_returns).cumprod() * initial_capital
PortfolioValueOf(cfg, sr) ==
    LET scale(growth) ==
            AsSeq([i \in 1..Len(sr) |-> RatMul(growth[i], cfg.initial_capital)])
    IN  scale(Cumprod(AsSeq([i \in 1..Len(sr) |-> RatAdd(One, sr[i])])))

PortfolioFrame(cfg, n, sig, returns, position, tr, sr) ==
    [frame |->
        [n |-> n,
         signal |-> AlignTo(n, sig),
         market_returns |-> returns,
         position |-> position,
         strategy_returns |-> sr,
         portfolio_value |-> PortfolioValueOf(cfg, sr)],
     trades |-> tr]

PortfolioFromTrades(cfg, n, sig, returns, position, tr) ==
    PortfolioFrame(cfg, n, sig, returns, position, tr,
                   StrategyReturnsOf(position, returns, CostsOf(cfg, tr)))

PortfolioFromPosition(cfg, n, sig, returns, position) ==
    PortfolioFromTrades(cfg, n, sig, returns, position, TradesOf(position))

\* the body of execute_trades once price data is present: the portfolio
\* frame it builds and its local trades series.  It raises nothing: there
\* is no check of the series' length nor of the signals' length.
BuildPortfolio(cfg, data, sig) ==
    PortfolioFromPosition(cfg, Len(data), sig, Fillna0(PctChange(data)),
                          PositionOf(Len(data), sig))

\* execute_trades: the error raised, the portfolio left in self.portfolio
\* and the local trades series (old is the portfolio before the call)
ExecuteTrades(cfg, loaded, data, sig, old) ==
    IF ~loaded
    THEN [error |-> ValueError(<<"NoPriceData">>), frame |-> old, trades |-> <<>>]
    ELSE [error |-> NoError] @@ BuildPortfolio(cfg, data, sig)

-----------------------------------------------------------------------------
(* Natural numbers of any size: base-10000 digits, least significant       *)
(* first, no leading zero digit; <<>> is 0.  They carry the squares that   *)
(* the standard deviation and the ratios built on it need.                 *)

RECURSIVE BigFromNat(_)
BigFromNat(n) ==
    IF n = 0 THEN <<>> ELSE <<n % 10000>> \o BigFromNat(n \div 10000)

RECURSIVE BigAddCarry(_, _, _)
BigAddCarry(a, b, c) ==
    IF a = <<>> /\ b = <<>>
    THEN IF c = 0 THEN <<>> ELSE <<c>>
    ELSE LET x == (IF a = <<>> THEN 0 ELSE Head(a))
                  + (IF b = <<>> THEN 0 ELSE Head(b)) + c
         IN  <<x % 10000>> \o
             BigAddCarry(IF a = <<>> THEN <<>> ELSE Tail(a),
                         IF b = <<>> THEN <<>> ELSE Tail(b),
                         x \div 10000)

\* a * m + c for one digit m
RECURSIVE BigMulDigit(_, _, _)
BigMulDigit(a, m, c) ==
    IF a = <<>>
    THEN IF c = 0 THEN <<>> ELSE <<c>>
    ELSE <<(Head(a) * m + c) % 10000>> \o
         BigMulDigit(Tail(a), m, (Head(a) * m + c) \div 10000)

RECURSIVE BigMul(_, _)
BigMul(a, b) ==
    IF a = <<>> \/ b = <<>> THEN <<>>
    ELSE BigAddCarry(BigMulDigit(a, Head(b), 0),
                     IF Tail(b) = <<>> THEN <<>> ELSE <<0>> \o BigMul(a, Tail(b)),
                     0)

BigLess(a, b) ==
    IF Len(a) # Len(b) THEN Len(a) < Len(b)
    ELSE \E i \in 1..Len(a) :
            a[i] < b[i] /\ \A j \in (i + 1)..Len(a) : a[j] = b[j]

\* A real sign * sqrt(num / den), num and den natural numbers of any size;
\* den = 0 is NaN.
SurdNaN == [sign |-> 0, num |-> <<>>, den |-> <<>>]
SurdZero == [sign |-> 0, num |-> <<>>, den |-> <<1>>]

SurdIsNaN(v) == v.den = <<>>

\* |a| < |b|
SurdMagLess(a, b) == BigLess(BigMul(a.num, b.den), BigMul(b.num, a.den))

\* a < b, False when either is NaN
SurdLess(a, b) ==
    /\ ~SurdIsNaN(a)
    /\ ~SurdIsNaN(b)
    /\ \/ a.sign < b.sign
       \/ a.sign = 1 /\ b.sign = 1 /\ SurdMagLess(a, b)
       \/ a.sign = -1 /\ b.sign = -1 /\ SurdMagLess(b, a)

\* the rational x divided by the surd v (v # 0)
RatOverSurd(x, v) ==
    IF IsNaN(x) \/ SurdIsNaN(v) THEN SurdNaN
    ELSE [sign |-> IF x[1] > 0 THEN 1 ELSE IF x[1] < 0 THEN -1 ELSE 0,
          num |-> BigMul(BigMul(BigFromNat(Abs(x[1])), BigFromNat(Abs(x[1]))), v.den),
          den |-> BigMul(BigMul(BigFromNat(x[2]), BigFromNat(x[2])), v.num)]

-----------------------------------------------------------------------------
(* Series statistics (NaN entries are skipped, as pandas does) *)

DropNaN(s) == SelectSeq(s, LAMBDA v : ~IsNaN(v))

RECURSIVE SumRange(_, _, _)
SumRange(s, lo, hi) ==
    IF lo > hi THEN Zero
    ELSE IF lo = hi THEN s[lo]
    ELSE RatAdd(SumRange(s, lo, (lo + hi) \div 2),
                SumRange(s, (lo + hi) \div 2 + 1, hi))

\* Series.mean()
MeanOfValid(v) ==
    IF Len(v) = 0 THEN NaN ELSE RatDiv(SumRange(v, 1, Len(v)), FromInt(Len(v)))

Mean(s) == MeanOfValid(DropNaN(s))

Lcm(a, b) == (a \div Gcd(a, b)) * b

\* the least common denominator of the values at lo..hi
RECURSIVE DenominatorRange(_, _, _)
DenominatorRange(s, lo, hi) ==
    IF lo > hi THEN 1
    ELSE IF lo = hi THEN s[lo][2]
    ELSE Lcm(DenominatorRange(s, lo, (lo + hi) \div 2),
             DenominatorRange(s, (lo + hi) \div 2 + 1, hi))

RECURSIVE IntSumRange(_, _, _)
IntSumRange(s, lo, hi) ==
    IF lo > hi THEN 0
    ELSE IF lo = hi THEN s[lo]
    ELSE IntSumRange(s, lo, (lo + hi) \div 2)
         + IntSumRange(s, (lo + hi) \div 2 + 1, hi)

\* sqrt(k) * Series.std() (ddof = 1) of the values v = ints / u:
\* sqrt(k * (n * sum(x^2) - sum(x)^2) / (n * (n - 1) * u^2)); NaN for fewer
\* than two values
ScaledStdOfInts(ints, u, k) ==
    LET n == Len(ints)
        surd(vnum) ==
            IF vnum = 0 THEN SurdZero
            ELSE [sign |-> 1,
                  num |-> BigMul(BigFromNat(k), BigFromNat(vnum)),
                  den |-> BigMul(BigFromNat(n * (n - 1)),
                                 BigMul(BigFromNat(u), BigFromNat(u)))]
        sums(s1, s2) == surd(n * s2 - s1 * s1)
    IN  IF n < 2 THEN SurdNaN
        ELSE sums(IntSumRange(ints, 1, n),
                  IntSumRange(AsSeq([i \in 1..n |-> ints[i] * ints[i]]), 1, n))

ScaledStdOfValid(v, k) ==
    LET over(u) == ScaledStdOfInts(AsSeq([i \in 1..Len(v) |-> v[i][1] * (u \div v[i][2])]), u, k)
    IN  over(DenominatorRange(v, 1, Len(v)))

\* Series.std() * sqrt(k)
ScaledStd(s, k) == ScaledStdOfValid(DropNaN(s), k)

\* the running maxima of s over lo..hi, NaN entries skipped, start being the
\* maximum before lo (NaN if there is none)
RECURSIVE RunningMax(_, _, _, _)
RECURSIVE RunningMaxAfter(_, _, _, _)
RunningMax(s, lo, hi, start) ==
    IF lo > hi THEN <<>>
    ELSE IF lo = hi
    THEN <<IF IsNaN(s[lo]) THEN start
           ELSE IF IsNaN(start) \/ RatLess(start, s[lo]) THEN s[lo] ELSE start>>
    ELSE RunningMaxAfter(s, (lo + hi) \div 2, hi,
                         RunningMax(s, lo, (lo + hi) \div 2, start))

RunningMaxAfter(s, mid, hi, left) ==
    left \o RunningMax(s, mid + 1, hi, left[Len(left)])

\* Series.cummax()
Cummax(s) == MaskNaN(s, RunningMax(s, 1, Len(s), NaN))

RatMin(x, y) == IF RatLess(y, x) THEN y ELSE x

RECURSIVE MinRange(_, _, _)
MinRange(s, lo, hi) ==
    IF lo = hi THEN s[lo]
    ELSE RatMin(MinRange(s, lo, (lo + hi) \div 2),
                MinRange(s, (lo + hi) \div 2 + 1, hi))

\* Series.min()
MinOfValid(v) == IF Len(v) = 0 THEN NaN ELSE MinRange(v, 1, Len(v))

Min(s) == MinOfValid(DropNaN(s))

-----------------------------------------------------------------------------
(* Inputs of the strategy-level specifications *)

\* how far the modelled series extend past min_data_points
ExtraLen == 1
\* longest run of missing values in a modelled series
MaxNanRun == 12

base_price == FromInt(100)

\* a series of n points at the base price, with a run of nanCount missing
\* values from nanStart on and the value bad at badPos (0: no such point)
MakeSeries(n, nanStart, nanCount, badPos, bad) ==
    [i \in 1..n |->
        IF i = badPos THEN bad
        ELSE IF nanStart <= i /\ i < nanStart + nanCount THEN NaN
        ELSE base_price]

SeriesLengths == {0, 20, min_data_points - 1} \cup
                 (min_data_points .. (min_data_points + ExtraLen)) \cup
                 {min_data_points + 20 + ExtraLen}

BadValues == {Zero, FromInt(-5)}

ValidationSeries ==
    {MakeSeries(n, s, c, 0, Zero) :
        n \in SeriesLengths, s \in {1, 2, 51}, c \in 0..MaxNanRun}
    \cup
    {MakeSeries(n, 3, c, p, b) :
        n \in SeriesLengths, c \in {0, 1, MaxNanRun}, p \in {1, 70}, b \in BadValues}

LoadArgs ==
    {[source |-> "provided", columns |-> TRUE, fetched |-> TRUE, series |-> s] :
        s \in ValidationSeries}
    \cup
    {[source |-> "ticker", columns |-> TRUE, fetched |-> TRUE, series |-> s] :
        s \in ValidationSeries}
    \cup
    {[source |-> "provided", columns |-> FALSE, fetched |-> TRUE, series |-> <<>>],
     [source |-> "ticker", columns |-> TRUE, fetched |-> FALSE, series |-> <<>>],
     [source |-> "none", columns |-> TRUE, fetched |-> TRUE, series |-> <<>>]}


\* the series past its first step: base price before position a, pa from a
\* on, pb from b on
StepSeries(n, a, pa, b, pb) ==
    [i \in 1..n |->
        IF i < a THEN base_price
        ELSE IF i < b THEN FromInt(pa) ELSE FromInt(pb)]

\* a signal series of length m: v1 before position k, v2 from k on
StepSignal(m, k, v1, v2) ==
    [i \in 1..m |-> IF i < k THEN FromInt(v1) ELSE FromInt(v2)]

SignalValues == {-1, 0, 1}

\* Backtester.__init__ and PerformanceAnalyzer.__init__ build
\* TradingConfig(initial_capital=initial_cash,
\*               transaction_cost_bps=commission * 10000)
ConfigOf(initial_cash, commission) ==
    [initial_capital |-> initial_cash,
     transaction_cost_bps |-> RatMul(commission, FromInt(10000)),
     risk_free_rate |-> default_risk_free_rate]

\* the Backtester's defaults, which main.py also passes
default_initial_cash == FromInt(default_initial_capital)
default_stake == FromInt(50000)
default_commission == <<1, 1000>>

BacktestConfig == ConfigOf(default_initial_cash, default_commission)

-----------------------------------------------------------------------------
(* A strategy object: load_data, then execute_trades *)

\* no analyzer is used on its own: the one a default Backtester holds
AnalyzerIdle ==
    /\ analyzer_obj = [config |-> BacktestConfig, stake |-> default_stake,
                       optional_metrics |-> <<>>]
    /\ an_calls = <<>>
    /\ comparison = [error |-> NoError, rows |-> <<>>]

BacktesterIdle ==
    /\ bt_pc = "idle"
    /\ optional_metrics = <<>>
    /\ bt_error = NoError
    /\ grid = <<>>
    /\ idx = 0
    /\ params = <<>>
    /\ results = <<>>
    /\ origins = <<>>
    /\ raised = {}
    /\ stages = [load |-> 0, simulate |-> 0, analyze |-> 0]
    /\ table = [columns |-> <<>>, rows |-> <<>>, origins |-> <<>>]

\* TradingStrategy.__init__
NewStrategy(cfg) ==
    /\ st_pc = "new"
    /\ has_price_data = FALSE
    /\ price_data = <<>>
    /\ load_error = NoError
    /\ portfolio = EmptyFrame
    /\ trades = <<>>
    /\ exec_error = NoError
    /\ config = cfg

\* strategy.load_data(...)
LoadDataCall ==
    /\ st_pc = "new"
    /\ LET done(r) ==
               /\ load_error' = r.error
               /\ has_price_data' = r.assigned
               /\ price_data' = r.data
               /\ st_pc' = IF r.error = NoError THEN "loaded" ELSE "load_failed"
       IN  done(LoadData(call_arg))
    /\ UNCHANGED <<call_arg, signals, portfolio, trades, exec_error, config>>
    /\ UNCHANGED backtester_vars
    /\ UNCHANGED analyzer_vars

\* strategy.execute_trades(); a caller may call it whatever load_data did
ExecuteTradesCall ==
    /\ st_pc \in {"new", "loaded", "load_failed"}
    /\ LET done(r) ==
               /\ exec_error' = r.error
               /\ portfolio' = r.frame
               /\ trades' = r.trades
               /\ st_pc' = IF r.error = NoError THEN "traded" ELSE "trade_failed"
       IN  done(ExecuteTrades(config, has_price_data, price_data, signals, portfolio))
    /\ UNCHANGED <<call_arg, has_price_data, price_data, load_error, signals, config>>
    /\ UNCHANGED backtester_vars
    /\ UNCHANGED analyzer_vars

InitValidate ==
    /\ NewStrategy(DefaultConfig)
    /\ call_arg \in LoadArgs
    /\ signals = <<>>
    /\ BacktesterIdle
    /\ AnalyzerIdle

SpecValidate == InitValidate /\ [][LoadDataCall]_vars


\* the price series handed to load_data before execute_trades is studied:
\* a flat one, one with a leading gap, one with a doubling and a halving,
\* and an empty one (load_data rejects it after assigning self.price_data)
TradeSeries ==
    {MakeSeries(min_data_points, 1, 0, 0, Zero),
     MakeSeries(min_data_points + ExtraLen, 1, 1, 0, Zero),
     StepSeries(min_data_points, 150, 200, 180, 100),
     <<>>}

TradeArgs ==
    {[source |-> "provided", columns |-> TRUE, fetched |-> TRUE, series |-> s] :
        s \in TradeSeries}
    \cup {[source |-> "none", columns |-> TRUE, fetched |-> TRUE, series |-> <<>>]}

\* what generate_signals may return for a price series of n points: series
\* over {-1, 0, 1} with at most one change (at the first and last few
\* positions and at every 25th in between), and series of another length
ChangePoints(n) ==
    {k \in 2..n : k <= 6 \/ k >= n - 4 \/ k % 25 = 0}

SignalFamily(n) ==
    {StepSignal(n, k, v1, v2) :
        k \in ChangePoints(n), v1 \in SignalValues, v2 \in SignalValues}
    \cup {StepSignal(m, 2, v, v) : m \in {n - 1, n + 1} \cap (0..(n + 1)), v \in SignalValues}
    \cup {StepSignal(n + 2, 2, 0, 1)}

\* a strategy object on which load_data has been called
InitTrades ==
    /\ \E cfg \in {DefaultConfig, BacktestConfig} : config = cfg
    /\ call_arg \in TradeArgs
    /\ LET loaded(r) ==
               /\ load_error = r.error
               /\ has_price_data = r.assigned
               /\ price_data = r.data
               /\ st_pc = IF r.error = NoError THEN "loaded" ELSE "load_failed"
               /\ signals \in SignalFamily(Len(r.data))
       IN  loaded(LoadData(call_arg))
    /\ portfolio = EmptyFrame
    /\ trades = <<>>
    /\ exec_error = NoError
    /\ BacktesterIdle
    /\ AnalyzerIdle

SpecTrades == InitTrades /\ [][ExecuteTradesCall]_vars

-----------------------------------------------------------------------------
(* PerformanceAnalyzer *)

KeyError(m) == [cls |-> "KeyError", msg |-> m]

\* the keys of optional_metric_functions
optional_metric_functions ==
    {"sortino_ratio", "win_ratio", "avg_trade_return", "calmar_ratio"}

trading_days_per_year == 252

\* the first element of names outside known (<<>> if there is none)
FirstOutside(names, known) ==
    LET bad == {i \in 1..Len(names) : names[i] \notin known}
    IN  IF bad = {} THEN <<>>
        ELSE <<names[CHOOSE i \in bad : \A j \in bad : i <= j]>>

\* PerformanceAnalyzer.__init__ without its validation loop
InitAcceptsAnyMetric(requested) == NoError

\* what PerformanceAnalyzer.__init__ raises for the requested optional
\* metrics (None is passed as <<>>)
AnalyzerInitError(requested) ==
    IF FirstOutside(requested, optional_metric_functions) = <<>>
    THEN NoError
    ELSE ValueError(<<"UnsupportedMetric">>
                    \o FirstOutside(requested, optional_metric_functions))

\* the analyzer object __init__ leaves
Analyzer(initial_cash, stake, commission, requested) ==
    [config |-> ConfigOf(initial_cash, commission),
     stake |-> stake,
     optional_metrics |-> requested]

\* returns * (stake / initial_capital)
ScaledReturns(analyzer, frame) ==
    LET by(factor) ==
            AsSeq([i \in 1..frame.n |-> RatMul(frame.strategy_returns[i], factor)])
    IN  by(RatDiv(analyzer.stake, analyzer.config.initial_capital))

\* (annual_return - risk_free_rate) / volatility if volatility != 0 else 0;
\* NaN != 0, so a NaN volatility gives a NaN ratio
RiskAdjusted(excess, volatility) ==
    IF ~SurdIsNaN(volatility) /\ volatility.sign = 0 THEN SurdZero
    ELSE RatOverSurd(excess, volatility)

AnnualReturn(scaled) == RatMul(Mean(scaled), FromInt(trading_days_per_year))

\* (portfolio_value - rolling_max) / rolling_max, then min()
MaxDrawdown(frame) ==
    LET below(rolling_max) ==
            Min(AsSeq([i \in 1..frame.n |->
                    RatDiv(RatSub(frame.portfolio_value[i], rolling_max[i]),
                           rolling_max[i])]))
    IN  below(Cummax(frame.portfolio_value))

\* _calculate_required_metrics
RequiredMetrics(analyzer, frame, scaled) ==
    LET ratios(annual_return, volatility) ==
            [total_return |->
                 RatSub(RatDiv(frame.portfolio_value[frame.n],
                               analyzer.config.initial_capital), One),
             annual_return |-> annual_return,
             sharpe_ratio |->
                 RiskAdjusted(RatSub(annual_return, analyzer.config.risk_free_rate),
                              volatility),
             max_drawdown |-> MaxDrawdown(frame),
             volatility |-> volatility]
    IN  ratios(AnnualReturn(scaled), ScaledStd(scaled, trading_days_per_year))

\* _calculate_sortino_ratio
SortinoRatio(analyzer, frame, scaled) ==
    LET downside_volatility(downside_returns) ==
            IF Len(downside_returns) = 0 THEN SurdZero
            ELSE ScaledStdOfValid(downside_returns, trading_days_per_year)
    IN  RiskAdjusted(RatSub(AnnualReturn(scaled), analyzer.config.risk_free_rate),
                     downside_volatility(SelectSeq(scaled, LAMBDA v : RatLess(v, Zero))))

\* _calculate_win_ratio
WinRatio(analyzer, frame, scaled) ==
    LET ratio(positive_days, total_days) ==
            IF total_days = 0 THEN Zero ELSE Rat(positive_days, total_days)
    IN  ratio(Len(SelectSeq(scaled, LAMBDA v : RatLess(Zero, v))),
              Len(DropNaN(scaled)))

\* _calculate_avg_trade_return
AvgTradeReturn(analyzer, frame, scaled) ==
    LET at(moves) ==
            LET picked == {i \in 1..frame.n : RatLess(Zero, moves[i])}
            IN  IF picked = {} THEN Zero
                ELSE Mean(AsSeq([i \in 1..frame.n |->
                                    IF i \in picked THEN scaled[i] ELSE NaN]))
    IN  at(DiffAbsFillna0(frame.position))

\* _calculate_calmar_ratio
CalmarRatio(analyzer, frame, scaled) ==
    LET over(max_drawdown) ==
            IF max_drawdown = Zero THEN Zero
            ELSE RatDiv(AnnualReturn(scaled), RatAbs(max_drawdown))
    IN  over(MaxDrawdown(frame))

\* self.optional_metric_functions[metric](portfolio, scaled_returns)
OptionalMetric(metric, analyzer, frame, scaled) ==
    CASE metric = "sortino_ratio" -> SortinoRatio(analyzer, frame, scaled)
      [] metric = "win_ratio" -> WinRatio(analyzer, frame, scaled)
      [] metric = "avg_trade_return" -> AvgTradeReturn(analyzer, frame, scaled)
      [] metric = "calmar_ratio" -> CalmarRatio(analyzer, frame, scaled)

\* the metrics dict as a function from names to values
RECURSIVE WithOptional(_, _, _, _, _)
WithOptional(metrics, k, analyzer, frame, scaled) ==
    IF k > Len(analyzer.optional_metrics) THEN metrics
    ELSE WithOptional(
             (analyzer.optional_metrics[k] :>
                  OptionalMetric(analyzer.optional_metrics[k], analyzer, frame, scaled))
             @@ metrics,
             k + 1, analyzer, frame, scaled)

\* analyze: the error raised and the metrics returned
Analyze(analyzer, frame) ==
    LET unknown == FirstOutside(analyzer.optional_metrics, optional_metric_functions)
        all(scaled) ==
            WithOptional(RequiredMetrics(analyzer, frame, scaled), 1,
                         analyzer, frame, scaled)
    IN  IF frame.n = 0
        THEN [error |-> ValueError(<<"EmptyPortfolio">>), metrics |-> <<>>]
        ELSE IF unknown # <<>>
        THEN [error |-> KeyError(unknown), metrics |-> <<>>]
        ELSE [error |-> NoError, metrics |-> all(ScaledReturns(analyzer, frame))]

-----------------------------------------------------------------------------
(* SimpleMAStrategy *)

default_short_window == 50
default_long_window == 200

\* A parameter combination is a dict: its items in insertion order, each a
\* pair <<name, value>>.
Keys(combo) == [i \in 1..Len(combo) |-> combo[i][1]]

KeySet(combo) == {combo[i][1] : i \in 1..Len(combo)}

Lookup(combo, name, default) ==
    IF name \in KeySet(combo)
    THEN combo[CHOOSE i \in 1..Len(combo) : combo[i][1] = name][2]
    ELSE default

\* SimpleMAStrategy(config=cfg, **combo): a keyword the constructor does not
\* have, or a second "config", is a TypeError
SimpleMAStrategyInit(cfg, combo) ==
    IF FirstOutside(Keys(combo), {"short_window", "long_window"}) # <<>>
    THEN [error |-> TypeError(<<"UnexpectedKeyword">>
                     \o FirstOutside(Keys(combo), {"short_window", "long_window"}))]
    ELSE [error |-> NoError,
          config |-> cfg,
          short_window |-> Lookup(combo, "short_window", default_short_window),
          long_window |-> Lookup(combo, "long_window", default_long_window)]

\* the running sums of s over positions lo..hi, start being the sum before lo
RECURSIVE RunningSum(_, _, _, _)
RECURSIVE RunningSumAfter(_, _, _, _)
RunningSum(s, lo, hi, start) ==
    IF lo > hi THEN <<>>
    ELSE IF lo = hi THEN <<RatAdd(start, s[lo])>>
    ELSE RunningSumAfter(s, (lo + hi) \div 2, hi,
                         RunningSum(s, lo, (lo + hi) \div 2, start))

RunningSumAfter(s, mid, hi, left) ==
    left \o RunningSum(s, mid + 1, hi, left[Len(left)])

\* Series.rolling(w).mean(): NaN until w points are in the window and
\* whenever the window holds a missing value
RollingMean(s, w) ==
    LET means(sums, gaps) ==
            AsSeq([i \in 1..Len(s) |->
                IF i < w THEN NaN
                ELSE IF i = w
                THEN IF gaps[i] = Zero THEN RatDiv(sums[i], FromInt(w)) ELSE NaN
                ELSE IF gaps[i] = gaps[i - w]
                THEN RatDiv(RatSub(sums[i], sums[i - w]), FromInt(w))
                ELSE NaN])
    IN  means(RunningSum(Fillna0(s), 1, Len(s), Zero),
              RunningSum(AsSeq([i \in 1..Len(s) |->
                             IF IsNaN(s[i]) THEN One ELSE Zero]), 1, Len(s), Zero))

\* generate_signals: rolling() rejects a negative window
GenerateSignals(strategy, data) ==
    LET cross(short_ma, long_ma) ==
            AsSeq([i \in 1..Len(data) |->
                IF RatLess(long_ma[i], short_ma[i]) THEN FromInt(1)
                ELSE IF RatLess(short_ma[i], long_ma[i]) THEN FromInt(-1)
                ELSE Zero])
    IN  IF strategy.short_window < 0 \/ strategy.long_window < 0
        THEN [error |-> ValueError(<<"InvalidWindow">>), signals |-> <<>>]
        ELSE [error |-> NoError,
              signals |-> cross(RollingMean(data, strategy.short_window),
                                RollingMean(data, strategy.long_window))]

\* execute_trades of a SimpleMAStrategy object
ExecuteTradesOf(strategy, loaded, data) ==
    LET traded(sg) ==
            IF sg.error # NoError
            THEN [error |-> sg.error, frame |-> EmptyFrame, trades |-> <<>>]
            ELSE ExecuteTrades(strategy.config, loaded, data, sg.signals, EmptyFrame)
    IN  IF ~loaded
        THEN ExecuteTrades(strategy.config, loaded, data, <<>>, EmptyFrame)
        ELSE traded(GenerateSignals(strategy, data))

-----------------------------------------------------------------------------
(* Backtester: construction and run_backtest over SimpleMAStrategy *)

\* longest parameter grid of a modelled run
MaxGrid == 3

\* the parameter combinations grids are built from: two usable window
\* pairs, a negative window, the EMA strategy's parameter names, and a
\* combination that leaves long_window to its default
ParamOptions ==
    {<< <<"short_window", 20>>, <<"long_window", 100>> >>,
     << <<"short_window", 50>>, <<"long_window", 200>> >>,
     << <<"short_window", -5>>, <<"long_window", 100>> >>,
     << <<"short_span", 20>>, <<"long_span", 100>> >>,
     << <<"short_window", 20>> >>}

RECURSIVE GridsOfLen(_)
GridsOfLen(n) ==
    IF n = 0 THEN {<<>>}
    ELSE {Append(g, c) : g \in GridsOfLen(n - 1), c \in ParamOptions}

Grids == UNION {GridsOfLen(n) : n \in 0..MaxGrid}

\* what yf.download may hand to one load_data call: nothing, too short a
\* series, a series stepping up twice, a series stepping up and then halving
FetchOutcomes ==
    <<[source |-> "ticker", columns |-> TRUE, fetched |-> FALSE, series |-> <<>>],
      [source |-> "ticker", columns |-> TRUE, fetched |-> TRUE,
       series |-> MakeSeries(min_data_points - 50, 1, 0, 0, Zero)],
      [source |-> "ticker", columns |-> TRUE, fetched |-> TRUE,
       series |-> StepSeries(min_data_points, 111, 110, 140, 121)],
      [source |-> "ticker", columns |-> TRUE, fetched |-> TRUE,
       series |-> StepSeries(min_data_points, 111, 110, 140, 55)]>>

\* the optional_metrics argument of Backtester(...)
OptionalRequests ==
    {<<>>,
     <<"sortino_ratio", "win_ratio", "calmar_ratio">>,
     <<"avg_trade_return">>,
     <<"bogus_metric">>,
     <<"win_ratio", "bogus_metric">>}

\* an except clause that names ValueError only
CatchesValueErrorOnly(e) == e.cls = "ValueError"

\* "except Exception": every exception the pipeline raises is caught
HandlerCatches(e) == e.cls \in {"ValueError", "TypeError", "KeyError"}

\* the try block of one loop iteration: the exception it raises, the calls
\* it reached and the metrics dict after metrics.update(params)
TryBlock(analyzer, combo, fetch) ==
    LET reached(l, s, a) == [load |-> l, simulate |-> s, analyze |-> a]
        analysed(m) ==
            IF m.error # NoError
            THEN [error |-> m.error, reached |-> reached(1, 1, 1), row |-> <<>>]
            ELSE [error |-> NoError, reached |-> reached(1, 1, 1),
                  row |-> [name \in KeySet(combo) |->
                              FromInt(Lookup(combo, name, 0))] @@ m.metrics]
        simulated(x) ==
            IF x.error # NoError
            THEN [error |-> x.error, reached |-> reached(1, 1, 0), row |-> <<>>]
            ELSE analysed(Analyze(analyzer, x.frame))
        loaded(strategy, l) ==
            IF l.error # NoError
            THEN [error |-> l.error, reached |-> reached(1, 0, 0), row |-> <<>>]
            ELSE simulated(ExecuteTradesOf(strategy, l.assigned, l.data))
        built(strategy) ==
            IF strategy.error # NoError
            THEN [error |-> strategy.error, reached |-> reached(0, 0, 0), row |-> <<>>]
            ELSE loaded(strategy, LoadData(fetch))
    IN  built(SimpleMAStrategyInit(analyzer.config, combo))

\* TryBlock for the Backtester's defaults, every combination, every fetch
\* outcome and every optional_metrics request, as a table
TryBlockTable ==
    [k \in ParamOptions \X (1..Len(FetchOutcomes)) \X OptionalRequests |->
        TryBlock(Analyzer(default_initial_cash, default_stake,
                          default_commission, k[3]),
                 k[1], FetchOutcomes[k[2]])] @@ <<>>

NoTable == [columns |-> <<>>, rows |-> <<>>, origins |-> <<>>]

\* a sharpe_ratio a must be placed before b: descending, NaN last
SortsBefore(a, b) == ~SurdIsNaN(a) /\ (SurdIsNaN(b) \/ SurdLess(b, a))

\* sort_values("sharpe_ratio", ascending=False): kind defaults to
\* "quicksort", which is not stable, so every order that is descending in
\* sharpe_ratio is a possible result
SortValues(rows) ==
    {order \in [1..Len(rows) -> 1..Len(rows)] :
        /\ \A i, j \in 1..Len(rows) : i # j => order[i] # order[j]
        /\ \A i, j \in 1..Len(rows) :
              i < j => ~SortsBefore(rows[order[j]].sharpe_ratio,
                                    rows[order[i]].sharpe_ratio)}

\* the column list of lines 61-66, last being the loop variable after the loop
ColumnsOf(last, requested, rows) ==
    LET present == UNION {DOMAIN rows[i] : i \in 1..Len(rows)}
    IN  SelectSeq(Keys(last)
                  \o <<"total_return", "annual_return", "sharpe_ratio", "max_drawdown">>
                  \o SelectSeq(requested, LAMBDA m : m \in present),
                  LAMBDA col : col \in present)

\* results_df[columns]: a cell a row's dict lacks is NaN
SelectColumns(columns, row) ==
    [col \in {columns[i] : i \in 1..Len(columns)} |->
        IF col \in DOMAIN row THEN row[col] ELSE NaN]

-----------------------------------------------------------------------------
(* One Backtester object and one run_backtest call *)

NoStrategy ==
    /\ st_pc = "none"
    /\ call_arg = [source |-> "none", columns |-> TRUE, fetched |-> TRUE,
                   series |-> <<>>]
    /\ has_price_data = FALSE
    /\ price_data = <<>>
    /\ load_error = NoError
    /\ signals = <<>>
    /\ portfolio = EmptyFrame
    /\ trades = <<>>
    /\ exec_error = NoError
    /\ config = BacktestConfig

NoStages == [load |-> 0, simulate |-> 0, analyze |-> 0]

\* Backtester(ticker, start, end, optional_metrics=requested), the other
\* arguments at their defaults: the analyzer is built outside any try
Construct ==
    /\ bt_pc = "new"
    /\ \E requested \in OptionalRequests :
          /\ optional_metrics' = requested
          /\ bt_error' = AnalyzerInitError(requested)
          /\ bt_pc' = IF AnalyzerInitError(requested) = NoError
                      THEN "ready" ELSE "construct_failed"
    /\ UNCHANGED <<grid, idx, params, results, origins, raised, stages, table>>
    /\ UNCHANGED strategy_vars
    /\ UNCHANGED analyzer_vars

\* run_backtest(SimpleMAStrategy, param_grid) is entered: results = []
StartRun ==
    /\ bt_pc = "ready"
    /\ \E param_grid \in Grids : grid' = param_grid
    /\ bt_pc' = "running"
    /\ idx' = 0
    /\ results' = <<>>
    /\ origins' = <<>>
    /\ raised' = {}
    /\ stages' = NoStages
    /\ UNCHANGED <<optional_metrics, bt_error, params, table>>
    /\ UNCHANGED strategy_vars
    /\ UNCHANGED analyzer_vars

\* one iteration of the loop over param_grid; the strategy object is local
\* to the iteration
RunCombination ==
    /\ bt_pc = "running"
    /\ idx < Len(grid)
    /\ idx' = idx + 1
    /\ params' = grid[idx + 1]
    /\ \E fetch \in 1..Len(FetchOutcomes) :
          LET done(r) ==
                  /\ stages' = [s \in DOMAIN stages |-> stages[s] + r.reached[s]]
                  /\ IF r.error = NoError
                     THEN /\ results' = Append(results, r.row)
                          /\ origins' = Append(origins, idx + 1)
                          /\ UNCHANGED <<raised, bt_pc, bt_error>>
                     ELSE IF HandlerCatches(r.error)
                     THEN /\ raised' = raised \cup {idx + 1}
                          /\ UNCHANGED <<results, origins, bt_pc, bt_error>>
                     ELSE /\ raised' = raised \cup {idx + 1}
                          /\ bt_pc' = "run_failed"
                          /\ bt_error' = r.error
                          /\ UNCHANGED <<results, origins>>
          IN  done(TryBlockTable[<<grid[idx + 1], fetch, optional_metrics>>])
    /\ UNCHANGED <<optional_metrics, grid, table>>
    /\ UNCHANGED strategy_vars
    /\ UNCHANGED analyzer_vars

\* the loop is over: the empty frame, or the selected columns sorted
Assemble ==
    /\ bt_pc = "running"
    /\ idx = Len(grid)
    /\ bt_pc' = "returned"
    /\ IF results = <<>>
       THEN table' = NoTable
       ELSE \E order \in SortValues(results) :
              LET framed(columns) ==
                      [columns |-> columns,
                       rows |-> [i \in 1..Len(results) |->
                                    SelectColumns(columns, results[order[i]])],
                       origins |-> [i \in 1..Len(results) |-> origins[order[i]]]]
              IN  table' = framed(ColumnsOf(params, optional_metrics, results))
    /\ UNCHANGED <<optional_metrics, bt_error, grid, idx, params, results,
                   origins, raised, stages>>
    /\ UNCHANGED strategy_vars
    /\ UNCHANGED analyzer_vars

Init ==
    /\ NoStrategy
    /\ bt_pc = "new"
    /\ optional_metrics = <<>>
    /\ bt_error = NoError
    /\ grid = <<>>
    /\ idx = 0
    /\ params = <<>>
    /\ results = <<>>
    /\ origins = <<>>
    /\ raised = {}
    /\ stages = NoStages
    /\ table = NoTable
    /\ AnalyzerIdle

Next == Construct \/ StartRun \/ RunCombination \/ Assemble

Spec == Init /\ [][Next]_vars

-----------------------------------------------------------------------------
(* One PerformanceAnalyzer object used on its own: analyze, compare_stakes *)

\* most analyze calls recorded in a modelled run
MaxCalls == 2

\* The portfolios handed to the analyzer: the frame execute_trades builds
\* under the Backtester's config for a price series and a signal series, or
\* the frame of a strategy that never traded.  In order: a long position
\* over two steps up; a short position while the price doubles on the
\* second date; the same with the price rising to 2.5 times and then
\* falling; a short position while the price doubles late; a flat position;
\* no trade at all.
AnalyzerCases ==
    <<[traded |-> TRUE,
       series |-> StepSeries(min_data_points, 111, 110, 140, 121),
       signal |-> StepSignal(min_data_points, 2, 1, 1)],
      [traded |-> TRUE,
       series |-> StepSeries(min_data_points, 2, 200, 140, 220),
       signal |-> StepSignal(min_data_points, 2, -1, -1)],
      [traded |-> TRUE,
       series |-> StepSeries(min_data_points, 2, 250, 140, 200),
       signal |-> StepSignal(min_data_points, 2, -1, -1)],
      [traded |-> TRUE,
       series |-> StepSeries(min_data_points, 150, 200, 180, 100),
       signal |-> StepSignal(min_data_points, 2, -1, -1)],
      [traded |-> TRUE,
       series |-> MakeSeries(min_data_points, 1, 0, 0, Zero),
       signal |-> StepSignal(min_data_points, 2, 0, 0)],
      [traded |-> FALSE, series |-> <<>>, signal |-> <<>>]>>

\* strategy.portfolio for a case
CaseFrame(c) ==
    IF c.traded THEN BuildPortfolio(BacktestConfig, c.series, c.signal).frame
    ELSE EmptyFrame

CaseFrames == AsSeq([i \in 1..Len(AnalyzerCases) |-> CaseFrame(AnalyzerCases[i])])

\* the stake values an analyzer is built with or compare_stakes is given
Stakes == {default_stake, FromInt(25000), default_initial_cash}

StakeLists ==
    {<<>>, <<default_stake>>, <<FromInt(25000), default_initial_cash>>,
     <<default_initial_cash, default_stake>>}

AnalyzerRequests == {<<>>, <<"sortino_ratio", "win_ratio", "calmar_ratio">>}

\* analyze, for every case, stake and request, as a table
AnalysisTable ==
    [k \in (1..Len(AnalyzerCases)) \X Stakes \X AnalyzerRequests |->
        Analyze(Analyzer(default_initial_cash, k[2], default_commission, k[3]),
                CaseFrames[k[1]])] @@ <<>>

\* self.analyze(portfolio), the portfolio being that of case c
AnalyzeCase(self, c) == AnalysisTable[<<c, self.stake, self.optional_metrics>>]

\* compare_stakes(portfolio, stakes): each stake is stored in self.stake
\* before analyze runs, and nothing restores the stake afterwards
CompareStakes(self, c, stakes) ==
    LET under(k) == AnalyzeCase([self EXCEPT !.stake = stakes[k]], c)
    IN  IF stakes = <<>>
        THEN [error |-> NoError, self |-> self, rows |-> <<>>]
        ELSE IF under(1).error # NoError
        THEN [error |-> under(1).error,
              self |-> [self EXCEPT !.stake = stakes[1]], rows |-> <<>>]
        ELSE [error |-> NoError,
              self |-> [self EXCEPT !.stake = stakes[Len(stakes)]],
              rows |-> [k \in 1..Len(stakes) |->
                           ("stake" :> stakes[k]) @@ under(k).metrics]]

\* a strategy's portfolio is simulated and analyzed
AnalyzeCall ==
    /\ Len(an_calls) < MaxCalls
    /\ \E c \in 1..Len(AnalyzerCases) :
          an_calls' = Append(an_calls,
                             [portfolio |-> c] @@ AnalyzeCase(analyzer_obj, c))
    /\ UNCHANGED <<analyzer_obj, comparison>>
    /\ UNCHANGED <<strategy_vars, backtester_vars>>

CompareStakesCall ==
    /\ \E c \in 1..Len(AnalyzerCases), stakes \in StakeLists :
          LET done(r) ==
                  /\ analyzer_obj' = r.self
                  /\ comparison' = [error |-> r.error, rows |-> r.rows]
          IN  done(CompareStakes(analyzer_obj, c, stakes))
    /\ UNCHANGED an_calls
    /\ UNCHANGED <<strategy_vars, backtester_vars>>

InitAnalyzer ==
    /\ NoStrategy
    /\ BacktesterIdle
    /\ \E stake \in Stakes, requested \in AnalyzerRequests :
          analyzer_obj = Analyzer(default_initial_cash, stake,
                                  default_commission, requested)
    /\ an_calls = <<>>
    /\ comparison = [error |-> NoError, rows |-> <<>>]

NextAnalyzer == AnalyzeCall \/ CompareStakesCall

SpecAnalyzer == InitAnalyzer /\ [][NextAnalyzer]_vars

-----------------------------------------------------------------------------
(* Claims about load_data / _validate_data, under SpecValidate *)

\* the pending or completed call was given a price series
HasSeries ==
    \/ call_arg.source = "provided" /\ call_arg.columns
    \/ call_arg.source = "ticker" /\ call_arg.fetched

LoadReturned == st_pc \in {"loaded", "load_failed"}

AllPresentPositive(s) ==
    \A i \in 1..Len(s) : ~IsNaN(s[i]) => RatLess(Zero, s[i])

ExcessMissing(s) == NanCount(s) * 100 > max_nan_percentage * Len(s)

NoGaps(s) == \A i \in 1..Len(s) : ~IsNaN(s[i])

\* C4: for every series with at least 200 points, all present prices
\* strictly positive and at most 5% missing, validation succeeds and the
\* validated series has no missing value at any index, the first included.
C4_ValidSeriesLoadsWithoutGaps ==
    (/\ LoadReturned
     /\ HasSeries
     /\ Len(call_arg.series) >= min_data_points
     /\ AllPresentPositive(call_arg.series)
     /\ ~ExcessMissing(call_arg.series))
    => (load_error = NoError /\ NoGaps(price_data))

\* C5 as claimed: every series with more than 5% missing values is rejected
\* as ExcessiveMissingData, whatever its length and other values, and
\* load_data reports that error as it is.
C5_ExcessMissingAlwaysReported ==
    (LoadReturned /\ HasSeries /\ ExcessMissing(call_arg.series))
    => load_error = ValueError(<<"ExcessiveMissingData">>)

\* C5 amended: a series with at least 200 points, no present price <= 0 and
\* more than 5% missing values is rejected as ExcessiveMissingData;
\* load_data(price_data=...) raises that error as it is and
\* load_data(ticker, start, end) raises it wrapped in its fetch-failure error.
C5_ExcessMissingReportedWhenReached ==
    (/\ LoadReturned
     /\ HasSeries
     /\ Len(call_arg.series) >= min_data_points
     /\ AllPresentPositive(call_arg.series)
     /\ ExcessMissing(call_arg.series))
    => load_error =
         IF call_arg.source = "provided"
         THEN ValueError(<<"ExcessiveMissingData">>)
         ELSE ValueError(<<"FailedToFetch", "ExcessiveMissingData">>)

C5_Witness ==
    /\ st_pc = "load_failed"
    /\ call_arg.source = "ticker"
    /\ call_arg.fetched
    /\ Len(call_arg.series) = min_data_points
    /\ AllPresentPositive(call_arg.series)
    /\ NanCount(call_arg.series) = 11
    /\ load_error = ValueError(<<"FailedToFetch", "ExcessiveMissingData">>)


-----------------------------------------------------------------------------
(* Claims about execute_trades, under SpecTrades.  Position i of a series  *)
(* is the claims' index i - 1.                                             *)

\* execute_trades ran on a validated price series and a signal series of
\* the same length
TradedOnValidated ==
    /\ st_pc = "traded"
    /\ load_error = NoError
    /\ Len(signals) = Len(price_data)

AllZero(sig) == \A i \in 1..Len(sig) : sig[i] = Zero

\* C6: for an all-zero signal series, strategy_returns is 0 at every index,
\* index 0 included, and portfolio_value is initial_capital at every index.
C6_ZeroSignalsLeaveCapitalUntouched ==
    (TradedOnValidated /\ AllZero(signals))
    => \A i \in 1..portfolio.n :
          /\ portfolio.strategy_returns[i] = Zero
          /\ portfolio.portfolio_value[i] = config.initial_capital

\* sig is constant except for one change of value at position c
OneChangeAt(sig, c) ==
    /\ c \in 2..Len(sig)
    /\ sig[c] # sig[c - 1]
    /\ \A j \in 2..Len(sig) : j # c => sig[j] = sig[j - 1]

TradeIndexes == {i \in 1..Len(trades) : trades[i] # Zero}

\* the positions where the strategy return differs from position * return,
\* that is, where a cost was charged
CostIndexes ==
    {i \in 2..portfolio.n :
        RatSub(RatMul(portfolio.position[i], portfolio.market_returns[i]),
               portfolio.strategy_returns[i]) # Zero}

\* C7 as claimed: a signal series with exactly one change, at index k >= 1,
\* gives a trade-size series with exactly one nonzero entry, at index k + 1,
\* and a cost is charged there and nowhere else.
C7_OneChangeOneTradeNextDay ==
    TradedOnValidated =>
        \A c \in 2..Len(signals) :
            OneChangeAt(signals, c) =>
                TradeIndexes = {c + 1} /\ CostIndexes = {c + 1}

\* C7 amended: when the change is at an index k that is not the last one,
\* the trade-size series has exactly one nonzero entry, at index k + 1, and
\* a cost is charged there and nowhere else; when the change is at the last
\* index, the trade-size series is zero throughout and no cost is charged.
C7_OneChangeOneTradeIfNotLast ==
    TradedOnValidated =>
        \A c \in 2..Len(signals) :
            OneChangeAt(signals, c) =>
                IF c < Len(signals)
                THEN TradeIndexes = {c + 1} /\ CostIndexes = {c + 1}
                ELSE TradeIndexes = {} /\ CostIndexes = {}

C7_Witness ==
    /\ TradedOnValidated
    /\ OneChangeAt(signals, 50)
    /\ signals[49] = FromInt(1)
    /\ signals[50] = FromInt(-1)
    /\ trades[51] = FromInt(2)
    /\ Cardinality(TradeIndexes) = 1

\* C10: execute_trades fails with EmptyInput on a price series of zero
\* length and with LengthMismatch when the signal series has another length
\* than the price series, and in neither case produces a portfolio.
C10_RejectsEmptyAndMismatchedInput ==
    (st_pc \in {"traded", "trade_failed"} /\ has_price_data) =>
        /\ Len(price_data) = 0 =>
              exec_error = ValueError(<<"EmptyInput">>) /\ portfolio = EmptyFrame
        /\ (Len(price_data) > 0 /\ Len(signals) # Len(price_data)) =>
              exec_error = ValueError(<<"LengthMismatch">>) /\ portfolio = EmptyFrame

-----------------------------------------------------------------------------
(* Claims about Backtester and run_backtest, under Spec *)

Returned == bt_pc = "returned"

RowIndexes == 1..Len(table.rows)

SameSharpe(a, b) == ~SortsBefore(a, b) /\ ~SortsBefore(b, a)

\* C2: the returned table is in descending order of sharpe_ratio, and rows
\* of equal sharpe_ratio are in the order of their combinations in the grid.
C2_SortedWithStableTies ==
    Returned =>
        \A i, j \in RowIndexes :
            i < j =>
                /\ ~SortsBefore(table.rows[j].sharpe_ratio, table.rows[i].sharpe_ratio)
                /\ SameSharpe(table.rows[i].sharpe_ratio, table.rows[j].sharpe_ratio)
                      => table.origins[i] < table.origins[j]

\* C3: an optional metric name outside the four known ones makes the
\* construction fail with the unsupported-metric error, which reaches the
\* caller; nothing has been loaded, simulated or analyzed.
C3_UnsupportedMetricFailsConstruction ==
    (bt_pc # "new" /\ FirstOutside(optional_metrics, optional_metric_functions) # <<>>)
        => /\ bt_pc = "construct_failed"
           /\ bt_error = ValueError(<<"UnsupportedMetric">> \o
                             FirstOutside(optional_metrics, optional_metric_functions))
           /\ stages = NoStages
           /\ results = <<>>

C3_Witness ==
    /\ bt_pc = "construct_failed"
    /\ optional_metrics = <<"win_ratio", "bogus_metric">>
    /\ bt_error = ValueError(<<"UnsupportedMetric", "bogus_metric">>)

required_metrics ==
    {"total_return", "annual_return", "sharpe_ratio", "max_drawdown", "volatility"}

\* C8: every row of the returned table has the five required metrics and
\* every requested optional metric.
C8_RowsHoldRequiredMetrics ==
    Returned =>
        \A i \in RowIndexes :
            /\ required_metrics \subseteq DOMAIN table.rows[i]
            /\ \A k \in 1..Len(optional_metrics) :
                  optional_metrics[k] \in DOMAIN table.rows[i]

\* C9: every row of the returned table holds the value of each parameter
\* of the combination it came from, and none of its metrics is a parameter
\* value.
C9_RowsHoldOwnParameters ==
    Returned =>
        \A i \in RowIndexes :
            LET combo == grid[table.origins[i]]
            IN  /\ \A name \in KeySet(combo) :
                      /\ name \in DOMAIN table.rows[i]
                      /\ table.rows[i][name] = FromInt(Lookup(combo, name, 0))
                /\ KeySet(combo) \cap
                       (required_metrics \cup optional_metric_functions) = {}

-----------------------------------------------------------------------------
(* Claims about PerformanceAnalyzer, under SpecAnalyzer *)

CallIndexes == 1..Len(an_calls)

\* C11: two runs that simulate and analyze the same price series, signal
\* series and config with the same analyzer give the same report, whatever
\* analyze or compare_stakes calls were made in between.
C11_SameInputsSameReport ==
    \A i, j \in CallIndexes :
        an_calls[i].portfolio = an_calls[j].portfolio
            => /\ an_calls[i].error = an_calls[j].error
               /\ an_calls[i].metrics = an_calls[j].metrics

\* C12: the max_drawdown analyze returns for a non-empty portfolio built by
\* execute_trades is <= 0, also when a strategy return <= -1 has made the
\* portfolio value zero or negative.
C12_MaxDrawdownNeverPositive ==
    \A i \in CallIndexes :
        an_calls[i].error = NoError
            => RatLeq(an_calls[i].metrics.max_drawdown, Zero)

=============================================================================
